---- MODULE Spec2Model ----
(***************************************************************************)
(* Keyframe interpolation of the minterpolate crate: the keyframe locator, *)
(* the arithmetic primitive over [f32; 3], and the six interpolators.      *)
(*                                                                         *)
(* f32 is modelled as a binary floating-point format of reduced width:     *)
(* a finite value is an integer count of the quantum 2^-FracBits that has  *)
(* at most MantBits significant bits (gradual underflow below that), every *)
(* operation rounds its exact result to the nearest such value, ties to    *)
(* even, and overflows to an infinity.  NaN and the infinities are three   *)
(* reserved integers.  Signed zeros are not distinguished.                 *)
(***************************************************************************)
EXTENDS Integers, Sequences, FiniteSets, TLC

\* ------------------------------------------------------------------ f32

FracBits ==
    10

MantBits ==
    5

MaxExp ==
    11

PosInf ==
    1000000

NegInf ==
    -1000000

NaN ==
    2000000

Unit == 2 ^ FracBits
MaxFinite == (2 ^ MantBits - 1) * 2 ^ MaxExp

IsNaN(x) == x = NaN
IsInf(x) == x = PosInf \/ x = NegInf
IsFinite(x) == ~IsNaN(x) /\ ~IsInf(x)

Abs(x) == IF x < 0 THEN -x ELSE x
Sign(x) == IF x < 0 THEN -1 ELSE 1

\* number of bits of a natural number
BitLen(n) ==
    CHOOSE k \in 0..30 : n < 2 ^ k /\ (k = 0 \/ n >= 2 ^ (k - 1))

\* the power of two that a / den is a multiple of once rounded
RoundShift(a, den) ==
    LET bl == BitLen(a \div den)
    IN  IF bl > MantBits THEN bl - MantBits ELSE 0

\* a / D rounded to the nearest integer, ties to even
RoundNearestEven(a, D) ==
    IF 2 * (a % D) > D \/ (2 * (a % D) = D /\ (a \div D) % 2 = 1)
    THEN (a \div D) + 1
    ELSE a \div D

\* the magnitude res with its sign, or the infinity when it is out of range
Saturate(negative, res) ==
    IF res > MaxFinite THEN (IF negative THEN NegInf ELSE PosInf)
    ELSE IF negative THEN -res
    ELSE res

RoundAt(a, den, sh) == RoundNearestEven(a, den * 2 ^ sh) * 2 ^ sh

\* num/den (den > 0) rounded to the nearest representable value, ties to even
RoundQ(num, den) ==
    Saturate(num < 0, RoundAt(Abs(num), den, RoundShift(Abs(num), den)))

\* exponent of the largest power of two dividing a (a # 0)
TrailingZeros(a) ==
    CHOOSE k \in 0..24 : a % (2 ^ k) = 0 /\ a % (2 ^ (k + 1)) # 0

FNeg(a) ==
    IF IsNaN(a) THEN NaN ELSE -a

FAdd(a, b) ==
    IF IsNaN(a) \/ IsNaN(b) THEN NaN
    ELSE IF IsInf(a) /\ IsInf(b) THEN (IF a = b THEN a ELSE NaN)
    ELSE IF IsInf(a) THEN a
    ELSE IF IsInf(b) THEN b
    ELSE RoundQ(a + b, 1)

FSub(a, b) == FAdd(a, FNeg(b))

\* a without its factors of two (a # 0)
OddPart(a) == a \div 2 ^ TrailingZeros(Abs(a))

\* p * 2^e rounded, for the product p of two odd parts
FMulFinite(p, e) ==
    IF e > MaxExp + MantBits THEN (IF p < 0 THEN NegInf ELSE PosInf)
    ELSE IF e >= 0 THEN RoundQ(p * 2 ^ e, 1)
    ELSE RoundQ(p, 2 ^ (-e))

FMul(a, b) ==
    IF IsNaN(a) \/ IsNaN(b) THEN NaN
    ELSE IF IsInf(a) \/ IsInf(b)
         THEN (IF a = 0 \/ b = 0 THEN NaN
               ELSE IF Sign(a) = Sign(b) THEN PosInf ELSE NegInf)
    ELSE IF a = 0 \/ b = 0 THEN 0
    ELSE FMulFinite(OddPart(a) * OddPart(b),
                    TrailingZeros(Abs(a)) + TrailingZeros(Abs(b)) - FracBits)

FDiv(a, b) ==
    IF IsNaN(a) \/ IsNaN(b) THEN NaN
    ELSE IF IsInf(a) THEN (IF IsInf(b) THEN NaN
                           ELSE IF Sign(a) = Sign(b) THEN PosInf ELSE NegInf)
    ELSE IF IsInf(b) THEN 0
    ELSE IF b = 0 THEN (IF a = 0 THEN NaN ELSE IF a < 0 THEN NegInf ELSE PosInf)
    ELSE RoundQ(Sign(b) * a * Unit, Abs(b))

\* the comparison operators of f32: every comparison with NaN is false
FLt(a, b) == ~IsNaN(a) /\ ~IsNaN(b) /\ a < b
FGt(a, b) == FLt(b, a)
FLe(a, b) == ~IsNaN(a) /\ ~IsNaN(b) /\ a <= b

\* largest r in lo..hi with r * r <= n
RECURSIVE ISqrt(_, _, _)
ISqrt(n, lo, hi) ==
    IF lo >= hi THEN lo
    ELSE LET mid == (lo + hi + 1) \div 2
         IN  IF mid * mid <= n THEN ISqrt(n, mid, hi) ELSE ISqrt(n, lo, mid - 1)

\* f32::sqrt: the square root, rounded once
FSqrt(a) ==
    IF IsNaN(a) \/ a < 0 THEN NaN
    ELSE IF a = PosInf THEN PosInf
    ELSE LET n == 4 * a * Unit
             s == ISqrt(n, 0, 2 ^ 15)
         IN  RoundQ(2 * s + (IF s * s = n THEN 0 ELSE 1), 4)

\* sin of every representable angle in [0, pi], rounded once
SinTable ==
    (0 :> 0) @@ (1 :> 1) @@ (2 :> 2) @@ (3 :> 3) @@ (4 :> 4) @@ (5 :> 5) @@ (6 :> 6) @@
    (7 :> 7) @@ (8 :> 8) @@ (9 :> 9) @@ (10 :> 10) @@ (11 :> 11) @@ (12 :> 12) @@ (13 :> 13) @@
    (14 :> 14) @@ (15 :> 15) @@ (16 :> 16) @@ (17 :> 17) @@ (18 :> 18) @@ (19 :> 19) @@
    (20 :> 20) @@ (21 :> 21) @@ (22 :> 22) @@ (23 :> 23) @@ (24 :> 24) @@ (25 :> 25) @@
    (26 :> 26) @@ (27 :> 27) @@ (28 :> 28) @@ (29 :> 29) @@ (30 :> 30) @@ (31 :> 31) @@
    (32 :> 32) @@ (34 :> 34) @@ (36 :> 36) @@ (38 :> 38) @@ (40 :> 40) @@ (42 :> 42) @@
    (44 :> 44) @@ (46 :> 46) @@ (48 :> 48) @@ (50 :> 50) @@ (52 :> 52) @@ (54 :> 54) @@
    (56 :> 56) @@ (58 :> 58) @@ (60 :> 60) @@ (62 :> 62) @@ (64 :> 64) @@ (68 :> 68) @@
    (72 :> 72) @@ (76 :> 76) @@ (80 :> 80) @@ (84 :> 84) @@ (88 :> 88) @@ (92 :> 92) @@
    (96 :> 96) @@ (100 :> 100) @@ (104 :> 104) @@ (108 :> 108) @@ (112 :> 112) @@
    (116 :> 116) @@ (120 :> 120) @@ (124 :> 124) @@ (128 :> 128) @@ (136 :> 136) @@
    (144 :> 144) @@ (152 :> 152) @@ (160 :> 160) @@ (168 :> 168) @@ (176 :> 176) @@
    (184 :> 184) @@ (192 :> 192) @@ (200 :> 200) @@ (208 :> 208) @@ (216 :> 216) @@
    (224 :> 224) @@ (232 :> 232) @@ (240 :> 240) @@ (248 :> 248) @@ (256 :> 256) @@
    (272 :> 272) @@ (288 :> 288) @@ (304 :> 304) @@ (320 :> 320) @@ (336 :> 336) @@
    (352 :> 352) @@ (368 :> 368) @@ (384 :> 368) @@ (400 :> 384) @@ (416 :> 400) @@
    (432 :> 416) @@ (448 :> 432) @@ (464 :> 448) @@ (480 :> 464) @@ (496 :> 480) @@
    (512 :> 496) @@ (544 :> 512) @@ (576 :> 544) @@ (608 :> 576) @@ (640 :> 608) @@
    (672 :> 640) @@ (704 :> 640) @@ (736 :> 672) @@ (768 :> 704) @@ (800 :> 736) @@
    (832 :> 736) @@ (864 :> 768) @@ (896 :> 800) @@ (928 :> 800) @@ (960 :> 832) @@
    (992 :> 832) @@ (1024 :> 864) @@ (1088 :> 896) @@ (1152 :> 928) @@ (1216 :> 960) @@
    (1280 :> 960) @@ (1344 :> 992) @@ (1408 :> 992) @@ (1472 :> 1024) @@ (1536 :> 1024) @@
    (1600 :> 1024) @@ (1664 :> 1024) @@ (1728 :> 1024) @@ (1792 :> 992) @@ (1856 :> 992) @@
    (1920 :> 992) @@ (1984 :> 960) @@ (2048 :> 928) @@ (2176 :> 864) @@ (2304 :> 800) @@
    (2432 :> 704) @@ (2560 :> 608) @@ (2688 :> 512) @@ (2816 :> 384) @@ (2944 :> 272) @@
    (3072 :> 144) @@ (3200 :> 17)

\* acos of every representable value in [-1, 1], rounded once
ACosTable ==
    (-1024 :> 3200) @@ (-992 :> 2944) @@ (-960 :> 2816) @@ (-928 :> 2816) @@ (-896 :> 2688) @@
    (-864 :> 2688) @@ (-832 :> 2560) @@ (-800 :> 2560) @@ (-768 :> 2432) @@ (-736 :> 2432) @@
    (-704 :> 2432) @@ (-672 :> 2304) @@ (-640 :> 2304) @@ (-608 :> 2304) @@ (-576 :> 2176) @@
    (-544 :> 2176) @@ (-512 :> 2176) @@ (-496 :> 2176) @@ (-480 :> 2048) @@ (-464 :> 2048) @@
    (-448 :> 2048) @@ (-432 :> 2048) @@ (-416 :> 2048) @@ (-400 :> 2048) @@ (-384 :> 1984) @@
    (-368 :> 1984) @@ (-352 :> 1984) @@ (-336 :> 1920) @@ (-320 :> 1920) @@ (-304 :> 1920) @@
    (-288 :> 1920) @@ (-272 :> 1856) @@ (-256 :> 1856) @@ (-248 :> 1856) @@ (-240 :> 1856) @@
    (-232 :> 1856) @@ (-224 :> 1856) @@ (-216 :> 1856) @@ (-208 :> 1792) @@ (-200 :> 1792) @@
    (-192 :> 1792) @@ (-184 :> 1792) @@ (-176 :> 1792) @@ (-168 :> 1792) @@ (-160 :> 1792) @@
    (-152 :> 1792) @@ (-144 :> 1728) @@ (-136 :> 1728) @@ (-128 :> 1728) @@ (-124 :> 1728) @@
    (-120 :> 1728) @@ (-116 :> 1728) @@ (-112 :> 1728) @@ (-108 :> 1728) @@ (-104 :> 1728) @@
    (-100 :> 1728) @@ (-96 :> 1728) @@ (-92 :> 1728) @@ (-88 :> 1728) @@ (-84 :> 1664) @@
    (-80 :> 1664) @@ (-76 :> 1664) @@ (-72 :> 1664) @@ (-68 :> 1664) @@ (-64 :> 1664) @@
    (-62 :> 1664) @@ (-60 :> 1664) @@ (-58 :> 1664) @@ (-56 :> 1664) @@ (-54 :> 1664) @@
    (-52 :> 1664) @@ (-50 :> 1664) @@ (-48 :> 1664) @@ (-46 :> 1664) @@ (-44 :> 1664) @@
    (-42 :> 1664) @@ (-40 :> 1664) @@ (-38 :> 1664) @@ (-36 :> 1664) @@ (-34 :> 1664) @@
    (-32 :> 1664) @@ (-31 :> 1664) @@ (-30 :> 1664) @@ (-29 :> 1664) @@ (-28 :> 1664) @@
    (-27 :> 1664) @@ (-26 :> 1664) @@ (-25 :> 1664) @@ (-24 :> 1664) @@ (-23 :> 1600) @@
    (-22 :> 1600) @@ (-21 :> 1600) @@ (-20 :> 1600) @@ (-19 :> 1600) @@ (-18 :> 1600) @@
    (-17 :> 1600) @@ (-16 :> 1600) @@ (-15 :> 1600) @@ (-14 :> 1600) @@ (-13 :> 1600) @@
    (-12 :> 1600) @@ (-11 :> 1600) @@ (-10 :> 1600) @@ (-9 :> 1600) @@ (-8 :> 1600) @@
    (-7 :> 1600) @@ (-6 :> 1600) @@ (-5 :> 1600) @@ (-4 :> 1600) @@ (-3 :> 1600) @@
    (-2 :> 1600) @@ (-1 :> 1600) @@ (0 :> 1600) @@ (1 :> 1600) @@ (2 :> 1600) @@ (3 :> 1600) @@
    (4 :> 1600) @@ (5 :> 1600) @@ (6 :> 1600) @@ (7 :> 1600) @@ (8 :> 1600) @@ (9 :> 1600) @@
    (10 :> 1600) @@ (11 :> 1600) @@ (12 :> 1600) @@ (13 :> 1600) @@ (14 :> 1600) @@
    (15 :> 1600) @@ (16 :> 1600) @@ (17 :> 1600) @@ (18 :> 1600) @@ (19 :> 1600) @@
    (20 :> 1600) @@ (21 :> 1600) @@ (22 :> 1600) @@ (23 :> 1600) @@ (24 :> 1600) @@
    (25 :> 1600) @@ (26 :> 1600) @@ (27 :> 1600) @@ (28 :> 1600) @@ (29 :> 1600) @@
    (30 :> 1600) @@ (31 :> 1600) @@ (32 :> 1600) @@ (34 :> 1600) @@ (36 :> 1600) @@
    (38 :> 1600) @@ (40 :> 1600) @@ (42 :> 1536) @@ (44 :> 1536) @@ (46 :> 1536) @@
    (48 :> 1536) @@ (50 :> 1536) @@ (52 :> 1536) @@ (54 :> 1536) @@ (56 :> 1536) @@
    (58 :> 1536) @@ (60 :> 1536) @@ (62 :> 1536) @@ (64 :> 1536) @@ (68 :> 1536) @@
    (72 :> 1536) @@ (76 :> 1536) @@ (80 :> 1536) @@ (84 :> 1536) @@ (88 :> 1536) @@
    (92 :> 1536) @@ (96 :> 1536) @@ (100 :> 1536) @@ (104 :> 1536) @@ (108 :> 1472) @@
    (112 :> 1472) @@ (116 :> 1472) @@ (120 :> 1472) @@ (124 :> 1472) @@ (128 :> 1472) @@
    (136 :> 1472) @@ (144 :> 1472) @@ (152 :> 1472) @@ (160 :> 1472) @@ (168 :> 1408) @@
    (176 :> 1408) @@ (184 :> 1408) @@ (192 :> 1408) @@ (200 :> 1408) @@ (208 :> 1408) @@
    (216 :> 1408) @@ (224 :> 1408) @@ (232 :> 1344) @@ (240 :> 1344) @@ (248 :> 1344) @@
    (256 :> 1344) @@ (272 :> 1344) @@ (288 :> 1344) @@ (304 :> 1280) @@ (320 :> 1280) @@
    (336 :> 1280) @@ (352 :> 1280) @@ (368 :> 1216) @@ (384 :> 1216) @@ (400 :> 1216) @@
    (416 :> 1152) @@ (432 :> 1152) @@ (448 :> 1152) @@ (464 :> 1152) @@ (480 :> 1088) @@
    (496 :> 1088) @@ (512 :> 1088) @@ (544 :> 1024) @@ (576 :> 992) @@ (608 :> 960) @@
    (640 :> 928) @@ (672 :> 864) @@ (704 :> 832) @@ (736 :> 800) @@ (768 :> 736) @@
    (800 :> 704) @@ (832 :> 640) @@ (864 :> 576) @@ (896 :> 512) @@ (928 :> 448) @@
    (960 :> 368) @@ (992 :> 256) @@ (1024 :> 0)

FSin(a) ==
    IF ~IsFinite(a) THEN NaN
    ELSE IF a < 0 THEN -SinTable[-a]
    ELSE SinTable[a]

FACos(a) ==
    IF IsNaN(a) \/ a < -Unit \/ a > Unit THEN NaN ELSE ACosTable[a]

FRecip(a) == FDiv(Unit, a)

\* --------------------------------------------- primitive.rs: [f32; 3]

add(a, b) ==
    <<FAdd(a[1], b[1]), FAdd(a[2], b[2]), FAdd(a[3], b[3])>>

sub(a, b) ==
    <<FSub(a[1], b[1]), FSub(a[2], b[2]), FSub(a[3], b[3])>>

mul(a, scalar) ==
    <<FMul(a[1], scalar), FMul(a[2], scalar), FMul(a[3], scalar)>>

dot(a, b) ==
    FAdd(FAdd(FMul(a[1], b[1]), FMul(a[2], b[2])), FMul(a[3], b[3]))

magnitude2(a) == dot(a, a)

magnitude(a) == FSqrt(magnitude2(a))

normalize(a) == mul(a, FDiv(Unit, magnitude(a)))

\* ------------------------------------------------- outcomes of a call

Ok(v) == [tag |-> "ok", val |-> v]
Panic == [tag |-> "panic", val |-> <<>>]

\* Option<usize>, Option<(usize, f32)>
None == Ok(<<>>)
Some(x) == Ok(x)

\* usize::MAX, the value 0 - 1 wraps to when overflow checks are compiled out
USIZE_MAX == 2 ^ 16 - 1

\* a - b on usize; checks is the build's overflow-checks setting
USizeSub(a, b, checks) ==
    IF a >= b THEN Ok(a - b)
    ELSE IF checks THEN Panic
    ELSE Ok(USIZE_MAX + 1 + a - b)

\* slice[k], k counted from 0
Index(slice, k) ==
    IF k >= 0 /\ k < Len(slice) THEN Ok(slice[k + 1]) ELSE Panic

\* ------------------------------------------------------------ lib.rs

\* v.partial_cmp(&input): "Less", "Equal", "Greater", or "None" for NaN
partial_cmp(v, input) ==
    IF IsNaN(v) \/ IsNaN(input) THEN "None"
    ELSE IF v < input THEN "Less"
    ELSE IF v > input THEN "Greater"
    ELSE "Equal"

\* slice::binary_search_by(|v| v.partial_cmp(&input).unwrap()) on [left, right)
RECURSIVE binary_search_by(_, _, _, _)
binary_search_by(input, inputs, left, right) ==
    IF left >= right THEN [tag |-> "Err", val |-> left]
    ELSE LET mid == left + (right - left) \div 2
             cmp == partial_cmp(inputs[mid + 1], input)
         IN  IF cmp = "None" THEN [tag |-> "panic", val |-> 0]
             ELSE IF cmp = "Less" THEN binary_search_by(input, inputs, mid + 1, right)
             ELSE IF cmp = "Greater" THEN binary_search_by(input, inputs, left, mid)
             ELSE [tag |-> "Ok", val |-> mid]

\* search_index without the "- 1" on the insertion point (an upper-bound search)
search_index_upper(input, inputs, checks) ==
    LET r == binary_search_by(input, inputs, 0, Len(inputs))
    IN  IF r.tag = "panic" THEN Panic ELSE Ok(r.val)

\* inputs.binary_search_by(..).unwrap_or_else(|index| index - 1)
search_index(input, inputs, checks) ==
    LET r == binary_search_by(input, inputs, 0, Len(inputs))
    IN  IF r.tag = "panic" THEN Panic
        ELSE IF r.tag = "Ok" THEN Ok(r.val)
        ELSE USizeSub(r.val, 1, checks)

\* get_input_index without its before-range test
get_input_index_unguarded(input, inputs, checks) ==
    LET s == search_index(input, inputs, checks)
    IN  IF Len(inputs) = 0 \/ s.tag = "panic" THEN Panic ELSE Some(<<s.val>>)

get_input_index(input, inputs, checks) ==
    IF Len(inputs) = 0 THEN Panic
    ELSE IF FLt(input, inputs[1]) THEN None
    ELSE LET s == search_index(input, inputs, checks)
         IN  IF s.tag = "panic" THEN Panic ELSE Some(<<s.val>>)

\* the factor measured back from the right keyframe
factor_from_right(input, inputs, index) ==
    FDiv(FSub(inputs[index + 2], input), FSub(inputs[index + 2], inputs[index + 1]))

\* (input - inputs[index]) / (inputs[index + 1] - inputs[index]), index from 0
factor(input, inputs, index) ==
    FDiv(FSub(input, inputs[index + 1]), FSub(inputs[index + 2], inputs[index + 1]))

get_interpolation_factor(input, inputs, checks) ==
    LET r == get_input_index(input, inputs, checks)
    IN  IF r.tag = "panic" \/ r = None THEN r
        ELSE LET index == r.val[1]
             IN  IF index >= Len(inputs) - 1 THEN Some(<<index, 0>>)
                 ELSE Some(<<index, factor(input, inputs, index)>>)

\* ----------------------------------------------------------- step.rs

\* step_interpolate returning outputs[len - 2] past the range, as the spline
\* layouts do
step_interpolate_spline_layout(input, inputs, outputs, norm, checks) ==
    LET r == get_input_index(input, inputs, checks)
    IN  IF r.tag = "panic" THEN Panic
        ELSE IF r = None THEN Index(outputs, 0)
        ELSE IF r.val[1] >= Len(inputs) - 1 THEN Index(outputs, Len(outputs) - 2)
        ELSE Index(outputs, r.val[1])

\* step_interpolate normalizing the held value when asked to
step_interpolate_normalizing(input, inputs, outputs, norm, checks) ==
    LET r == get_input_index(input, inputs, checks)
        held == IF r.tag = "panic" THEN Panic
                ELSE IF r = None THEN Index(outputs, 0)
                ELSE IF r.val[1] >= Len(inputs) - 1 THEN Index(outputs, Len(outputs) - 1)
                ELSE Index(outputs, r.val[1])
    IN  IF norm /\ held.tag = "ok" THEN Ok(normalize(held.val)) ELSE held

step_interpolate(input, inputs, outputs, norm, checks) ==
    LET r == get_input_index(input, inputs, checks)
    IN  IF r.tag = "panic" THEN Panic
        ELSE IF r = None THEN Index(outputs, 0)
        ELSE IF r.val[1] >= Len(inputs) - 1 THEN Index(outputs, Len(outputs) - 1)
        ELSE Index(outputs, r.val[1])

\* --------------------------------------------------------- linear.rs

\* a blend that leaves out the subtraction of left
lerp_no_sub(left, right, d) == add(left, mul(right, d))

\* left.add(&right.sub(&left).mul(d))
lerp(left, right, d) == add(left, mul(sub(right, left), d))

\* linear_interpolate normalizing the two keyframes instead of their blend
linear_interpolate_normalizing_ends(input, inputs, outputs, norm, checks) ==
    IF Len(inputs) = 0 \/ Len(outputs) = 0 THEN Panic
    ELSE IF FLt(input, inputs[1]) THEN Ok(outputs[1])
    ELSE LET s == search_index(input, inputs, checks)
         IN  IF s.tag = "panic" THEN Panic
             ELSE IF s.val >= Len(inputs) - 1 THEN Ok(outputs[Len(outputs)])
             ELSE IF s.val + 1 >= Len(outputs) THEN Panic
             ELSE LET d == factor(input, inputs, s.val)
                      left == outputs[s.val + 1]
                      right == outputs[s.val + 2]
                  IN  Ok(IF norm
                         THEN lerp(normalize(left), normalize(right), d)
                         ELSE lerp(left, right, d))

linear_interpolate(input, inputs, outputs, norm, checks) ==
    IF Len(inputs) = 0 \/ Len(outputs) = 0 THEN Panic
    ELSE IF FLt(input, inputs[1]) THEN Ok(outputs[1])
    ELSE LET s == search_index(input, inputs, checks)
         IN  IF s.tag = "panic" THEN Panic
             ELSE IF s.val >= Len(inputs) - 1 THEN Ok(outputs[Len(outputs)])
             ELSE IF s.val + 1 >= Len(outputs) THEN Panic
             ELSE LET d == factor(input, inputs, s.val)
                      left == outputs[s.val + 1]
                      right == outputs[s.val + 2]
                      v == lerp(left, right, d)
                  IN  Ok(IF norm THEN normalize(v) ELSE v)

\* ----------------------------------------------- spherical_linear.rs

\* 0.9995f32: the largest representable value below 1
dot_threshold == Unit - 2 ^ (FracBits - MantBits)

slerp(left, right, d) ==
    LET dt == dot(left, right)
    IN  IF FGt(dt, dot_threshold) THEN lerp(left, right, d)
        ELSE LET r_dot == IF FGt(dt, Unit) THEN Unit
                          ELSE IF FLt(dt, -Unit) THEN -Unit
                          ELSE dt
                 theta == FACos(r_dot)
                 scale1 == FSin(FMul(theta, FSub(Unit, d)))
                 scale2 == FSin(FMul(theta, d))
             IN  mul(add(mul(left, scale1), mul(right, scale2)), FRecip(FSin(theta)))

spherical_linear_interpolate(input, inputs, outputs, norm, checks) ==
    IF Len(inputs) = 0 \/ Len(outputs) = 0 THEN Panic
    ELSE IF FLt(input, inputs[1]) THEN Ok(outputs[1])
    ELSE LET s == search_index(input, inputs, checks)
         IN  IF s.tag = "panic" THEN Panic
             ELSE IF s.val >= Len(inputs) - 1 THEN Ok(outputs[Len(outputs)])
             ELSE IF s.val + 1 >= Len(outputs) THEN Panic
             ELSE LET d == factor(input, inputs, s.val)
                      left == outputs[s.val + 1]
                      right == outputs[s.val + 2]
                      v == slerp(left, right, d)
                  IN  Ok(IF norm THEN normalize(v) ELSE v)
\* ------------------------------------------------ primitive.rs: u32

\* width of the unsigned primitive, reduced with the floats so that every
\* value of the type stays below the largest finite float
U32_BITS ==
    5

U32_MAX == 2 ^ U32_BITS - 1

\* *self + other: aborts on overflow when the build checks for it, wraps
\* otherwise
u32_add(a, b, checks) ==
    IF a + b <= U32_MAX THEN Ok(a + b)
    ELSE IF checks THEN Panic
    ELSE Ok((a + b) % (U32_MAX + 1))

\* *self - other
u32_sub(a, b, checks) ==
    IF a >= b THEN Ok(a - b)
    ELSE IF checks THEN Panic
    ELSE Ok(U32_MAX + 1 + a - b)

\* a as f32
u32_as_f32(a) == RoundQ(a * Unit, 1)

\* x as u32: truncates towards zero, saturates, and maps NaN to zero
f32_as_u32(x) ==
    IF IsNaN(x) \/ x <= 0 THEN 0
    ELSE IF x >= (U32_MAX + 1) * Unit THEN U32_MAX
    ELSE x \div Unit

\* (*self as f32 * scalar) as u32
u32_mul(a, scalar) == f32_as_u32(FMul(u32_as_f32(a), scalar))

u32_normalize(a) == a

\* left.add(&right.sub(&left).mul(d)) over u32
u32_lerp(left, right, d, checks) ==
    LET diff == u32_sub(right, left, checks)
    IN  IF diff.tag = "panic" THEN Panic
        ELSE u32_add(left, u32_mul(diff.val, d), checks)

\* linear_interpolate::<u32>
linear_interpolate_u32(input, inputs, outputs, norm, checks) ==
    IF Len(inputs) = 0 \/ Len(outputs) = 0 THEN Panic
    ELSE IF FLt(input, inputs[1]) THEN Ok(outputs[1])
    ELSE LET s == search_index(input, inputs, checks)
         IN  IF s.tag = "panic" THEN Panic
             ELSE IF s.val >= Len(inputs) - 1 THEN Ok(outputs[Len(outputs)])
             ELSE IF s.val + 1 >= Len(outputs) THEN Panic
             ELSE LET v == u32_lerp(outputs[s.val + 1], outputs[s.val + 2],
                                    factor(input, inputs, s.val), checks)
                  IN  IF v.tag = "panic" THEN Panic
                      ELSE IF norm THEN Ok(u32_normalize(v.val))
                      ELSE v

\* ----------------------------------------- quasi_spherical_linear.rs

\* 0.82279687
WARP_ATTENUATION ==
    832

\* 0.58549219
WARP_WORST_CASE_SLOPE ==
    608

\* 0.959066
ISQRT_NEIGHBOURHOOD ==
    992

\* 0.97931916
ISQRT_NEIGHBOURHOOD_SQRT ==
    992

\* 1.000311
ISQRT_SCALE ==
    1024

\* 0.91521198
ONE_REFINEMENT_BELOW ==
    928

\* 0.65211970
TWO_REFINEMENTS_BELOW ==
    672

ISQRT_ADDITIVE_CONSTANT == FDiv(ISQRT_SCALE, ISQRT_NEIGHBOURHOOD_SQRT)

ISQRT_FACTOR ==
    FMul(ISQRT_SCALE,
         FDiv(-(Unit \div 2), FMul(ISQRT_NEIGHBOURHOOD, ISQRT_NEIGHBOURHOOD_SQRT)))

\* 2. * k * d * d - 3. * k * d + k + 1.
counter_warp(d, cos_alpha) ==
    LET fac == FSub(Unit, FMul(WARP_ATTENUATION, cos_alpha))
        k == FMul(FMul(WARP_WORST_CASE_SLOPE, fac), fac)
    IN  FAdd(FAdd(FSub(FMul(FMul(FMul(2 * Unit, k), d), d),
                       FMul(FMul(3 * Unit, k), d)),
                  k),
             Unit)

isqrt_approx_in_neighbourhood(s) ==
    FAdd(ISQRT_ADDITIVE_CONSTANT, FMul(FSub(s, ISQRT_NEIGHBOURHOOD), ISQRT_FACTOR))

fast_normalize(v) ==
    LET s == magnitude2(v)
        k0 == isqrt_approx_in_neighbourhood(s)
        k1 == FMul(k0, isqrt_approx_in_neighbourhood(FMul(FMul(k0, k0), s)))
        k2 == FMul(k1, isqrt_approx_in_neighbourhood(FMul(FMul(k1, k1), s)))
        k == IF FLe(s, ONE_REFINEMENT_BELOW)
             THEN (IF FLe(s, TWO_REFINEMENTS_BELOW) THEN k2 ELSE k1)
             ELSE k0
    IN  mul(v, k)

\* the warped blend factor d'
d_prime(d, dt) ==
    IF FLe(d, Unit \div 2)
    THEN counter_warp(d, dt)
    ELSE FSub(Unit, counter_warp(FSub(Unit, d), dt))

quasi_slerp(left, right, d) ==
    lerp(left, right, d_prime(d, dot(left, right)))

quasi_spherical_linear_interpolate(input, inputs, outputs, norm, checks) ==
    LET r == get_input_index(input, inputs, checks)
    IN  IF r.tag = "panic" THEN Panic
        ELSE IF r = None THEN Index(outputs, 0)
        ELSE IF r.val[1] >= Len(inputs) - 1 THEN Index(outputs, Len(outputs) - 1)
        ELSE IF r.val[1] + 1 >= Len(outputs) THEN Panic
        ELSE LET d == factor(input, inputs, r.val[1])
                 left == outputs[r.val[1] + 1]
                 right == outputs[r.val[1] + 2]
                 v == quasi_slerp(left, right, d)
             IN  Ok(IF norm THEN fast_normalize(v) ELSE v)

\* ---------------------------------------------------- cubic_spline.rs

spline(t, left_t, t_diff, p0, p1, m0, m1) ==
    LET d == FDiv(FSub(t, left_t), t_diff)
        t2 == FMul(d, d)
        t3 == FMul(t2, d)
        w_p0 == FAdd(FSub(FMul(2 * Unit, t3), FMul(3 * Unit, t2)), Unit)
        w_m0 == FAdd(FSub(t3, FMul(2 * Unit, t2)), d)
        w_p1 == FAdd(FMul(-2 * Unit, t3), FMul(3 * Unit, t2))
        w_m1 == FSub(t3, t2)
    IN  add(add(add(mul(p0, w_p0), mul(m0, w_m0)), mul(p1, w_p1)), mul(m1, w_m1))

\* cubic_spline_interpolate taking the stored tangents as they are, without
\* rescaling them by the interval width
cubic_spline_interpolate_unscaled(input, inputs, outputs, norm, checks) ==
    LET s == search_index(input, inputs, checks)
        last == USizeSub(Len(inputs), 1, checks)
    IN  IF s.tag = "panic" \/ last.tag = "panic" THEN Panic
        ELSE IF s.val >= last.val THEN Index(outputs, Len(outputs) - 2)
        ELSE LET input_index == s.val
                 t_diff == FSub(inputs[input_index + 2], inputs[input_index + 1])
                 left_index == input_index * 3
                 right_index == (input_index + 1) * 3
             IN  IF right_index + 1 >= Len(outputs) THEN Panic
                 ELSE LET v == spline(input, inputs[input_index + 1], t_diff,
                                      outputs[left_index + 2],
                                      outputs[right_index + 2],
                                      outputs[left_index + 3],
                                      outputs[right_index + 1])
                      IN  Ok(IF norm THEN normalize(v) ELSE v)

cubic_spline_interpolate(input, inputs, outputs, norm, checks) ==
    LET s == search_index(input, inputs, checks)
        last == USizeSub(Len(inputs), 1, checks)
    IN  IF s.tag = "panic" \/ last.tag = "panic" THEN Panic
        ELSE IF s.val >= last.val THEN Index(outputs, Len(outputs) - 2)
        ELSE LET input_index == s.val
                 t_diff == FSub(inputs[input_index + 2], inputs[input_index + 1])
                 left_index == input_index * 3
                 right_index == (input_index + 1) * 3
             IN  IF right_index + 1 >= Len(outputs) THEN Panic
                 ELSE LET v == spline(input, inputs[input_index + 1], t_diff,
                                      outputs[left_index + 2],
                                      outputs[right_index + 2],
                                      mul(outputs[left_index + 3], t_diff),
                                      mul(outputs[right_index + 1], t_diff))
                      IN  Ok(IF norm THEN normalize(v) ELSE v)

\* ---------------------------------------------- catmull_rom_spline.rs

\* catmull_tangent with the one-sided difference at interior keyframes
catmull_tangent_one_sided(index, inputs, outputs) ==
    LET output_index == index + 1
    IN  IF index = 0 THEN outputs[1]
        ELSE IF index = Len(inputs) - 1 THEN outputs[Len(outputs)]
        ELSE mul(sub(outputs[output_index + 2], outputs[output_index + 1]),
                 FDiv(Unit, FSub(inputs[index + 2], inputs[index + 1])))

catmull_tangent(index, inputs, outputs) ==
    LET output_index == index + 1
    IN  IF index = 0 THEN outputs[1]
        ELSE IF index = Len(inputs) - 1 THEN outputs[Len(outputs)]
        ELSE mul(sub(outputs[output_index + 2], outputs[output_index]),
                 FDiv(Unit, FSub(inputs[index + 2], inputs[index])))

\* catmull_rom_spline_interpolate with the tangents of the two bounding
\* keyframes exchanged
catmull_rom_spline_interpolate_swapped_tangents(input, inputs, outputs, norm, checks) ==
    LET s == search_index(input, inputs, checks)
        last == USizeSub(Len(inputs), 1, checks)
    IN  IF s.tag = "panic" \/ last.tag = "panic" THEN Panic
        ELSE IF s.val >= last.val THEN Index(outputs, Len(outputs) - 2)
        ELSE LET input_index == s.val
                 t_diff == FSub(inputs[input_index + 2], inputs[input_index + 1])
                 top == IF input_index + 1 = Len(inputs) - 1
                        THEN input_index + 2
                        ELSE input_index + 3
             IN  IF top >= Len(outputs) THEN Panic
                 ELSE LET v == spline(input, inputs[input_index + 1], t_diff,
                                      outputs[input_index + 2],
                                      outputs[input_index + 3],
                                      catmull_tangent(input_index + 1, inputs, outputs),
                                      catmull_tangent(input_index, inputs, outputs))
                      IN  Ok(IF norm THEN normalize(v) ELSE v)

catmull_rom_spline_interpolate(input, inputs, outputs, norm, checks) ==
    LET s == search_index(input, inputs, checks)
        last == USizeSub(Len(inputs), 1, checks)
    IN  IF s.tag = "panic" \/ last.tag = "panic" THEN Panic
        ELSE IF s.val >= last.val THEN Index(outputs, Len(outputs) - 2)
        ELSE LET input_index == s.val
                 t_diff == FSub(inputs[input_index + 2], inputs[input_index + 1])
                 \* the highest slot read: by the right tangent, or by p1
                 top == IF input_index + 1 = Len(inputs) - 1
                        THEN input_index + 2
                        ELSE input_index + 3
             IN  IF top >= Len(outputs) THEN Panic
                 ELSE LET v == spline(input, inputs[input_index + 1], t_diff,
                                      outputs[input_index + 2],
                                      outputs[input_index + 3],
                                      catmull_tangent(input_index, inputs, outputs),
                                      catmull_tangent(input_index + 1, inputs, outputs))
                      IN  Ok(IF norm THEN normalize(v) ELSE v)

\* ------------------------------------------------- the calls modelled

\* most keyframes of an input sequence
MaxKeys ==
    5

\* latest keyframe time
MaxTime ==
    4

\* a query time far beyond every keyframe
FarTime == 48 * Unit

KeyTimes == {k * Unit : k \in 0..MaxTime}

QueryTimes == {k * (Unit \div 2) : k \in -2..(2 * MaxTime + 2)} \cup {FarTime}

StrictlyIncreasing(s) == \A i \in 1..(Len(s) - 1) : s[i] < s[i + 1]

InputSets ==
    {s \in UNION {[1..n -> KeyTimes] : n \in 1..MaxKeys} : StrictlyIncreasing(s)}

\* the [f32; 3] values the output buffers are filled with
Pool ==
    << <<0, 0, 0>>,
       <<Unit, 0, 0>>,
       <<3 * (Unit \div 4), Unit \div 4, 0>>,
       <<-Unit, 0, 0>>,
       <<0, Unit, 0>> >>

Strides == {0, 1, 2}

Pattern(len, start, stride) ==
    [k \in 1..len |-> Pool[((start + (k - 1) * stride) % Len(Pool)) + 1]]

\* the output buffers of the crate's own tests (linear.rs 52-58, step.rs 39-45,
\* catmull_rom_spline.rs 82-90), for the keyframe times 0, 1, 2, 3, 4
LinearTestOutputs ==
    << <<0, 0, 0>>, <<Unit, 0, 0>>, <<0, 0, 0>>, <<-Unit, 0, 0>>, <<0, 0, 0>> >>

CatmullTestOutputs ==
    << <<Unit, 0, 0>>, <<0, 0, 0>>, <<Unit, 0, 0>>, <<0, 0, 0>>, <<-Unit, 0, 0>>,
       <<0, 0, 0>>, <<-Unit, 0, 0>> >>

TestInputs == [k \in 1..5 |-> (k - 1) * Unit]

\* the three layouts: n, 3n and n + 2 elements for n keyframes
Layouts(n) == {n, 3 * n, n + 2}

OutputSets(n) ==
    {Pattern(len, start, stride) :
        len \in Layouts(n), start \in 0..(Len(Pool) - 1), stride \in Strides}
    \cup {b \in {LinearTestOutputs, CatmullTestOutputs} : Len(b) \in Layouts(n)}

VARIABLES input, inputs, outputs, normalize_flag, overflow_checks, index, called,
          result

vars ==
    <<input, inputs, outputs, normalize_flag, overflow_checks, index, called, result>>

Init ==
    /\ inputs \in InputSets
    /\ outputs \in OutputSets(Len(inputs))
    /\ input \in QueryTimes
    /\ normalize_flag \in BOOLEAN
    /\ overflow_checks \in BOOLEAN
    /\ index = 0
    /\ called = "none"
    /\ result = [tag |-> "none", val |-> <<>>]

Call(name, r) ==
    /\ called = "none"
    /\ called' = name
    /\ result' = r
    /\ UNCHANGED <<input, inputs, outputs, normalize_flag, overflow_checks, index>>

GetInputIndex ==
    Call("get_input_index", get_input_index(input, inputs, overflow_checks))

GetInterpolationFactor ==
    Call("get_interpolation_factor",
         get_interpolation_factor(input, inputs, overflow_checks))

Step ==
    Call("step",
         step_interpolate(input, inputs, outputs, normalize_flag, overflow_checks))

Linear ==
    Call("linear",
         linear_interpolate(input, inputs, outputs, normalize_flag, overflow_checks))

SphericalLinear ==
    Call("spherical_linear",
         spherical_linear_interpolate(input, inputs, outputs, normalize_flag,
                                      overflow_checks))

QuasiSphericalLinear ==
    Call("quasi_spherical_linear",
         quasi_spherical_linear_interpolate(input, inputs, outputs, normalize_flag,
                                            overflow_checks))

CubicSpline ==
    Call("cubic_spline",
         cubic_spline_interpolate(input, inputs, outputs, normalize_flag,
                                  overflow_checks))

CatmullRomSpline ==
    Call("catmull_rom_spline",
         catmull_rom_spline_interpolate(input, inputs, outputs, normalize_flag,
                                        overflow_checks))

\* catmull_tangent at a keyframe of a buffer laid out [in0, p_0..p_n, out_n]
CatmullTangent ==
    /\ called = "none"
    /\ Len(outputs) = Len(inputs) + 2
    /\ \E k \in 0..(Len(inputs) - 1) :
            /\ index' = k
            /\ result' = Ok(catmull_tangent(k, inputs, outputs))
    /\ called' = "catmull_tangent"
    /\ UNCHANGED <<input, inputs, outputs, normalize_flag, overflow_checks>>

Next ==
    \/ GetInputIndex
    \/ GetInterpolationFactor
    \/ Step
    \/ Linear
    \/ SphericalLinear
    \/ QuasiSphericalLinear
    \/ CubicSpline
    \/ CatmullRomSpline
    \/ CatmullTangent

Spec == Init /\ [][Next]_vars

\* the calls on inputs that hold two equal adjacent times

NonDecreasing(s) == \A i \in 1..(Len(s) - 1) : s[i] <= s[i + 1]

DegenerateInputSets ==
    {s \in UNION {[1..n -> {k * Unit : k \in 0..(MaxTime - 2)}] : n \in 2..(MaxKeys - 1)} :
        NonDecreasing(s) /\ ~StrictlyIncreasing(s)}

DegenerateQueryTimes == {k * (Unit \div 2) : k \in -1..(2 * (MaxTime - 2) + 1)}

InitDegenerate ==
    /\ inputs \in DegenerateInputSets
    /\ outputs \in OutputSets(Len(inputs))
    /\ input \in DegenerateQueryTimes
    /\ normalize_flag \in BOOLEAN
    /\ overflow_checks \in BOOLEAN
    /\ index = 0
    /\ called = "none"
    /\ result = [tag |-> "none", val |-> <<>>]

SpecDegenerate == InitDegenerate /\ [][Next]_vars

\* linear interpolation over buffers of the unsigned primitive

UnsignedValues == {0, 3, 10, U32_MAX}

UnsignedInputSets == {s \in InputSets : Len(s) \in 2..(MaxKeys - 2)}

InitUnsigned ==
    /\ inputs \in UnsignedInputSets
    /\ outputs \in [1..Len(inputs) -> UnsignedValues]
    /\ input \in QueryTimes
    /\ normalize_flag \in BOOLEAN
    /\ overflow_checks \in BOOLEAN
    /\ index = 0
    /\ called = "none"
    /\ result = [tag |-> "none", val |-> <<>>]

LinearUnsigned ==
    Call("linear_u32",
         linear_interpolate_u32(input, inputs, outputs, normalize_flag,
                                overflow_checks))

NextUnsigned == LinearUnsigned

SpecUnsigned == InitUnsigned /\ [][NextUnsigned]_vars


\* ------------------------------------------------------- properties

EqualLength == Len(outputs) = Len(inputs)

EqualLengthCall ==
    called \in {"step", "linear", "spherical_linear", "quasi_spherical_linear"}

\* the query time lies in the interval that keyframe i (counted from 1) starts
InInterval(i) == inputs[i] <= input /\ input < inputs[i + 1]

\* C1: for non-empty strictly increasing inputs, get_input_index returns None
\* when t < inputs[0] and otherwise Some(i) for the index i with inputs[i] <= t
\* and (i is the last index or t < inputs[i+1]); an exact match t == inputs[k]
\* yields k.
C1_Locator ==
    (called = "get_input_index" /\ StrictlyIncreasing(inputs)) =>
        IF input < inputs[1]
        THEN result = None
        ELSE \E i \in 1..Len(inputs) :
                /\ result = Some(<<i - 1>>)
                /\ inputs[i] <= input
                /\ (i = Len(inputs) \/ input < inputs[i + 1])
                /\ \A k \in 1..Len(inputs) : input = inputs[k] => i = k

\* an exact match at an interior keyframe is assigned to the interval it starts
C1_Witness ==
    /\ called = "get_input_index"
    /\ Len(inputs) >= 3
    /\ input = inputs[2]
    /\ result = Some(<<1>>)

\* C2: step, linear, spherical-linear and quasi-spherical-linear, on outputs of
\* the inputs' length, return exactly outputs[last] for every query time
\* t >= inputs[last], however far beyond the last keyframe.
C2_PastRange ==
    (EqualLengthCall /\ EqualLength /\ input >= inputs[Len(inputs)]) =>
        result = Ok(outputs[Len(outputs)])

\* a query far past the last of several keyframes whose outputs differ
C2_Witness ==
    /\ called = "step"
    /\ EqualLength
    /\ Len(inputs) >= 3
    /\ input = FarTime
    /\ outputs[Len(outputs)] # outputs[Len(outputs) - 1]
    /\ outputs[Len(outputs)] # outputs[1]
    /\ result = Ok(outputs[Len(outputs)])

\* C3: step, linear, spherical-linear and quasi-spherical-linear return exactly
\* outputs[0] for every query time t < inputs[0]: the stored element, whatever
\* the normalize flag and the build's overflow checks.
C3_BeforeRange ==
    (EqualLengthCall /\ EqualLength /\ input < inputs[1]) =>
        result = Ok(outputs[1])

\* a query before the first keyframe of a buffer whose first element is not
\* of unit length and differs from the last, with normalize set
C3_Witness ==
    /\ called = "quasi_spherical_linear"
    /\ EqualLength
    /\ Len(inputs) >= 2
    /\ input < inputs[1]
    /\ normalize_flag
    /\ outputs[1] = <<3 * (Unit \div 4), Unit \div 4, 0>>
    /\ outputs[1] # outputs[Len(outputs)]
    /\ result = Ok(outputs[1])
CubicLayout == Len(outputs) = 3 * Len(inputs)

CatmullLayout == Len(outputs) = Len(inputs) + 2

\* C4: with n keyframes and 3n outputs, the cubic spline interpolator returns
\* the first keyframe's position slot outputs[1] for every t < inputs[0] and
\* the last keyframe's position slot outputs[3(n-1)+1] for every
\* t >= inputs[last], and aborts in neither case.
C4_CubicBoundary ==
    (called = "cubic_spline" /\ CubicLayout) =>
        /\ input < inputs[1] => result = Ok(outputs[2])
        /\ input >= inputs[Len(inputs)] => result = Ok(outputs[3 * (Len(inputs) - 1) + 2])

\* C5: with n keyframes and n + 2 outputs, the Catmull-Rom interpolator returns
\* outputs[len-2] for every t < inputs[0] and for every t >= inputs[last].
C5_CatmullBoundary ==
    (/\ called = "catmull_rom_spline"
     /\ CatmullLayout
     /\ (input < inputs[1] \/ input >= inputs[Len(inputs)])) =>
        result = Ok(outputs[Len(outputs) - 1])

AtFirstKeyframe ==
    Len(inputs) >= 2 /\ input = inputs[1] /\ ~normalize_flag

\* the first two outputs take spherical-linear's near-parallel fallback
NearParallelStart == FGt(dot(outputs[1], outputs[2]), dot_threshold)

C7_QuasiEndpoints ==
    (called = "quasi_spherical_linear" /\ EqualLength /\ ~normalize_flag) =>
        \A i \in 1..Len(inputs) :
            input = inputs[i] =>
                /\ result = Ok(outputs[i])
                /\ i < Len(inputs) =>
                        /\ d_prime(0, dot(outputs[i], outputs[i + 1])) = 0
                        /\ d_prime(Unit, dot(outputs[i], outputs[i + 1])) = Unit
Half == Unit \div 2

\* C8: for inputs[i] <= t < inputs[i+1] and normalize false, linear_interpolate
\* returns p0 + (p1 - p0) * d with p0 = outputs[i], p1 = outputs[i+1] and
\* d = (t - inputs[i]) / (inputs[i+1] - inputs[i]); at the midpoint of two
\* keyframes that is the component-wise average of p0 and p1, and for inputs
\* [0,1,2,3,4], outputs (0,0,0),(1,0,0),(0,0,0),(-1,0,0),(0,0,0) and t = 0.5 it
\* is (0.5,0,0).
C8_LinearBlend ==
    (called = "linear" /\ EqualLength /\ ~normalize_flag) =>
        /\ \A i \in 1..(Len(inputs) - 1) :
                InInterval(i) =>
                    LET p0 == outputs[i]
                        p1 == outputs[i + 1]
                        d == FDiv(FSub(input, inputs[i]), FSub(inputs[i + 1], inputs[i]))
                    IN  /\ result = Ok(add(p0, mul(sub(p1, p0), d)))
                        /\ FSub(input, inputs[i]) = FSub(inputs[i + 1], input) =>
                                result = Ok(mul(add(p0, p1), Half))
        /\ (inputs = TestInputs /\ outputs = LinearTestOutputs /\ input = Half) =>
                result = Ok(<<Half, 0, 0>>)

\* the midpoint of an interval whose two outputs differ, in the second interval
\* of unevenly spaced keyframes
C8_Witness ==
    /\ called = "linear"
    /\ EqualLength
    /\ ~normalize_flag
    /\ Len(inputs) >= 3
    /\ inputs[3] - inputs[2] = 2 * Unit
    /\ input = inputs[2] + Unit
    /\ outputs[2] = <<3 * (Unit \div 4), Unit \div 4, 0>>
    /\ outputs[3] = <<-Unit, 0, 0>>
    /\ result = Ok(<<-(Unit \div 8), Unit \div 8, 0>>)

InRange == inputs[1] <= input /\ input < inputs[Len(inputs)]

\* C10: for linear, spherical-linear, cubic Hermite and Catmull-Rom and every
\* query time inputs[0] <= t < inputs[last], the result with normalize true is
\* the primitive's normalize applied to the result for the same arguments with
\* normalize false; linear between (0,0,0) and (1,0,0) at d = 0.5 with
\* normalize true yields (1,0,0).
C10_NormalizeFlag ==
    (normalize_flag /\ InRange) =>
        /\ (called = "linear" /\ EqualLength) =>
                /\ result = Ok(normalize(linear_interpolate(
                                    input, inputs, outputs, FALSE, overflow_checks).val))
                /\ (inputs = TestInputs /\ outputs = LinearTestOutputs /\ input = Half) =>
                        result = Ok(<<Unit, 0, 0>>)
        /\ (called = "spherical_linear" /\ EqualLength) =>
                result = Ok(normalize(spherical_linear_interpolate(
                                input, inputs, outputs, FALSE, overflow_checks).val))
        /\ (called = "cubic_spline" /\ CubicLayout) =>
                result = Ok(normalize(cubic_spline_interpolate(
                                input, inputs, outputs, FALSE, overflow_checks).val))
        /\ (called = "catmull_rom_spline" /\ CatmullLayout) =>
                result = Ok(normalize(catmull_rom_spline_interpolate(
                                input, inputs, outputs, FALSE, overflow_checks).val))

\* a blend strictly inside an interval whose raw value is neither zero nor of
\* unit length, returned normalized
C10_Witness ==
    /\ called = "catmull_rom_spline"
    /\ CatmullLayout
    /\ normalize_flag
    /\ InRange
    /\ \E i \in 1..(Len(inputs) - 1) : inputs[i] < input /\ input < inputs[i + 1]
    /\ LET raw == catmull_rom_spline_interpolate(
                       input, inputs, outputs, FALSE, overflow_checks).val
       IN  /\ magnitude2(raw) # 0
           /\ magnitude2(raw) # Unit
           /\ result = Ok(normalize(raw))
           /\ result # Ok(raw)

\* the cubic Hermite blend of p0, m0, p1, m1 at the factor d, every operation
\* rounded as the f32 arithmetic rounds it
Hermite(p0, m0, p1, m1, d) ==
    LET d2 == FMul(d, d)
        d3 == FMul(d2, d)
        h00 == FAdd(FSub(FMul(2 * Unit, d3), FMul(3 * Unit, d2)), Unit)
        h10 == FAdd(FSub(d3, FMul(2 * Unit, d2)), d)
        h01 == FAdd(FMul(-2 * Unit, d3), FMul(3 * Unit, d2))
        h11 == FSub(d3, d2)
    IN  add(add(add(mul(p0, h00), mul(m0, h10)), mul(p1, h01)), mul(m1, h11))

position(k) == outputs[k + 2]

\* the components of a divided by the scalar b, each quotient rounded once
div(a, b) == <<FDiv(a[1], b), FDiv(a[2], b), FDiv(a[3], b)>>

\* C12: the tangent at an interior keyframe k (0 < k < last) is
\* (position[k+1] - position[k-1]) / (inputs[k+1] - inputs[k-1]), computed as a
\* product with the reciprocal of the width, which is the rounded quotient
\* itself when the width is a power of two; positions (1,0,0), (0,0,0),
\* (-1,0,0) at spacing 1 give (-1,0,0); the tangent at k = 0 is exactly
\* outputs[0] and the tangent at k = last is exactly outputs[len-1].
C12_CatmullTangent ==
    called = "catmull_tangent" =>
        LET last == Len(inputs) - 1
            k == index
        IN  /\ k = 0 => result = Ok(outputs[1])
            /\ (k = last /\ k # 0) => result = Ok(outputs[Len(outputs)])
            /\ (0 < k /\ k < last) =>
                    LET diff == sub(position(k + 1), position(k - 1))
                        width == FSub(inputs[k + 2], inputs[k])
                    IN  /\ result = Ok(mul(diff, FDiv(Unit, width)))
                        /\ width \in {2 * Unit, 4 * Unit} => result = Ok(div(diff, width))
                        /\ (/\ position(k - 1) = <<Unit, 0, 0>>
                            /\ position(k + 1) = <<-Unit, 0, 0>>
                            /\ inputs[k + 1] - inputs[k] = Unit
                            /\ inputs[k + 2] - inputs[k + 1] = Unit) =>
                                result = Ok(<<-Unit, 0, 0>>)

\* the centered difference at an interior keyframe of unevenly spaced inputs,
\* different from both boundary slots and from zero
C12_Witness ==
    /\ called = "catmull_tangent"
    /\ 0 < index
    /\ index < Len(inputs) - 1
    /\ inputs[index + 2] - inputs[index + 1] # inputs[index + 1] - inputs[index]
    /\ position(index + 1) # position(index - 1)
    /\ result # Ok(outputs[1])
    /\ result # Ok(outputs[Len(outputs)])
    /\ result = Ok(div(sub(position(index + 1), position(index - 1)),
                       FSub(inputs[index + 2], inputs[index])))

\* the Catmull-Rom interpolator called on the reference scenario: inputs
\* [0,1,2,3,4], the 7-element buffer, query time 0.5, normalize false
CatmullReference ==
    /\ called = "catmull_rom_spline"
    /\ inputs = TestInputs
    /\ outputs = CatmullTestOutputs
    /\ input = Half
    /\ ~normalize_flag

\* 0.625
FiveEighths == 5 * (Unit \div 8)

WarpGrid == {k * (Unit \div 8) : k \in 0..7}

\* C14: for the dot product of the two bounding outputs, the warped factor
\* d'(d) of the quasi-spherical-linear blend is monotone non-decreasing in d
\* over [0, 1), with no jump downward at d = 0.5, and stays within [0, 1].
C14_MonotoneWarp ==
    (called = "quasi_spherical_linear" /\ EqualLength) =>
        \A i \in 1..(Len(inputs) - 1) :
            InInterval(i) =>
                LET dt == dot(outputs[i], outputs[i + 1])
                IN  \A d1, d2 \in WarpGrid :
                        /\ d1 <= d2 => FLe(d_prime(d1, dt), d_prime(d2, dt))
                        /\ FLe(0, d_prime(d1, dt))
                        /\ FLe(d_prime(d1, dt), Unit)

\* the locator puts the query time in the zero-width interval that keyframe i
\* (counted from 1) starts
InDegenerateInterval(i) ==
    /\ inputs[i] = inputs[i + 1]
    /\ input = inputs[i]
    /\ get_input_index(input, inputs, overflow_checks) = Some(<<i - 1>>)

\* C15: when two adjacent input times are equal and the query time is located
\* in that zero-width interval, get_interpolation_factor and linear_interpolate
\* end in an error instead of returning a value computed from the division by
\* zero.
C15_DegenerateIsError ==
    (called \in {"get_interpolation_factor", "linear"} /\ EqualLength) =>
        \A i \in 1..(Len(inputs) - 1) : InDegenerateInterval(i) => result = Panic

\* the query time lies before the first keyframe or at or past the last one
OutsideRange == input < inputs[1] \/ input >= inputs[Len(inputs)]

\* an interpolator that blends, called on the buffer layout it expects
BlendingCall ==
    \/ called \in {"linear", "spherical_linear", "quasi_spherical_linear"} /\ EqualLength
    \/ called = "cubic_spline" /\ CubicLayout
    \/ called = "catmull_rom_spline" /\ CatmullLayout

\* the result of the call made, had it been made with the normalize flag norm
Rerun(norm) ==
    IF called = "linear"
    THEN linear_interpolate(input, inputs, outputs, norm, overflow_checks)
    ELSE IF called = "spherical_linear"
    THEN spherical_linear_interpolate(input, inputs, outputs, norm, overflow_checks)
    ELSE IF called = "quasi_spherical_linear"
    THEN quasi_spherical_linear_interpolate(input, inputs, outputs, norm, overflow_checks)
    ELSE IF called = "cubic_spline"
    THEN cubic_spline_interpolate(input, inputs, outputs, norm, overflow_checks)
    ELSE catmull_rom_spline_interpolate(input, inputs, outputs, norm, overflow_checks)

\* C16: for linear, spherical-linear, quasi-spherical-linear, cubic Hermite and
\* Catmull-Rom, whenever t < inputs[0] or t >= inputs[last] a stored buffer
\* element is returned unchanged, and the result with normalize true is
\* identical to the result with normalize false.
C16_NormalizeOutsideRange ==
    (BlendingCall /\ OutsideRange) =>
        /\ result.tag = "ok"
        /\ \E k \in 1..Len(outputs) : result.val = outputs[k]
        /\ result = Rerun(TRUE)
        /\ result = Rerun(FALSE)

Min(a, b) == IF a <= b THEN a ELSE b
Max(a, b) == IF a >= b THEN a ELSE b

\* C17: for every pair of bounding outputs p0 = outputs[i], p1 = outputs[i+1]
\* of the unsigned type, p1 < p0 included, and every query time with
\* inputs[i] <= t < inputs[i+1], the subtraction p1 - p0 stays within the type's
\* range and linear_interpolate returns a value v with
\* min(p0, p1) <= v <= max(p0, p1).
C17_UnsignedNoUnderflow ==
    (called = "linear_u32" /\ EqualLength) =>
        \A i \in 1..(Len(inputs) - 1) :
            InInterval(i) =>
                /\ u32_sub(outputs[i + 1], outputs[i], TRUE) # Panic
                /\ result.tag = "ok"
                /\ Min(outputs[i], outputs[i + 1]) <= result.val
                /\ result.val <= Max(outputs[i], outputs[i + 1])

\* the triple-layout buffer with the positions of the Catmull-Rom buffer and,
\* at each keyframe, in-tangent and out-tangent both the Catmull-Rom tangent
TripleLayout ==
    [j \in 1..(3 * Len(inputs)) |->
        IF (j - 1) % 3 = 1
        THEN position((j - 1) \div 3)
        ELSE catmull_tangent((j - 1) \div 3, inputs, outputs)]

\* C18: for strictly increasing inputs, evenly spaced or not, every
\* Catmull-Rom buffer and every in-range query time, the Catmull-Rom
\* interpolator returns the value of the cubic Hermite interpolator run on the
\* triple-layout buffer with the same positions and the Catmull-Rom tangents.
C18_CatmullIsHermite ==
    (/\ called = "catmull_rom_spline"
     /\ CatmullLayout
     /\ StrictlyIncreasing(inputs)
     /\ InRange) =>
        result = cubic_spline_interpolate(input, inputs, TripleLayout, normalize_flag,
                                          overflow_checks)
====
